---- MODULE Spec2Model ----
EXTENDS FiniteSets, Integers, Naturals, Sequences, TLC

\* Verification model of package kubeinterface (kubeinterface.go).
\* Go maps are TLA+ functions; a nil map is Nil.  Reading a nil map behaves
\* as reading an empty one, assigning into a nil map panics.

Nil == [isnil |-> TRUE]
\* JSON: a field missing from the object, a JSON null
Absent == [absent |-> TRUE]
Null == [null |-> TRUE]
\* annotations without the key, with a value json.Unmarshal rejects
NoMap == [annot |-> "nomap"]
NoKey == [annot |-> "nokey"]
Malformed == [annot |-> "malformed"]
\* a JSON string field missing from the object
AbsentStr == "<absent>"

\* ---------------------------------------------------------------------
\* Small domains
\* ---------------------------------------------------------------------
Res == {"gpu", "cpu"}
MaxVal == 2
Vals == 1..MaxVal
EmptyMap == [r \in {} |-> 0]
MapsOver(V) == UNION {[S -> V] : S \in SUBSET Res}
Keys(m) == IF m = Nil THEN {} ELSE DOMAIN m
Norm(m) == IF m = Nil THEN EmptyMap ELSE m
\* Go: for k, v := range over { base[k] = v } on a non-nil base
PutAll(base, over) ==
  [k \in DOMAIN base \cup Keys(over) |->
     IF k \in Keys(over) THEN over[k] ELSE base[k]]

\* strings.TrimSpace on names modelled as sequences of characters; the
\* characters unicode.IsSpace accepts (non-printable ones named by their code)
WhiteSpace == {" ", "\t", "\n", "\r", "\f", "U+000B", "U+0085", "U+00A0",
               "U+1680", "U+2000", "U+2001", "U+2002", "U+2003", "U+2004",
               "U+2005", "U+2006", "U+2007", "U+2008", "U+2009", "U+200A",
               "U+2028", "U+2029", "U+202F", "U+205F", "U+3000"}
RECURSIVE TrimLeft(_)
TrimLeft(s) == IF s # <<>> /\ Head(s) \in WhiteSpace THEN TrimLeft(Tail(s)) ELSE s
RECURSIVE TrimRight(_)
TrimRight(s) == IF s # <<>> /\ s[Len(s)] \in WhiteSpace THEN TrimRight(SubSeq(s, 1, Len(s) - 1)) ELSE s
TrimSpace(s) == TrimRight(TrimLeft(s))

\* ---------------------------------------------------------------------
\* Node side
\* ---------------------------------------------------------------------
NodeMetaName == <<"n">>
NodeNames == {<<>>, <<" ">>, <<"\t", "U+00A0">>, <<"a">>, <<" ", "a">>}
\* decoded JSON object stored under "KubeDevice/DeviceInfo"
\* name: a string field, present or not; used: Absent, Null or a JSON object
NodeJsons == [name : [present : {FALSE}, val : {<<>>}] \cup [present : {TRUE}, val : NodeNames],
              used : {Absent, Null} \cup MapsOver(Vals)]
\* the node's annotations: nil map, map without the key, malformed value, or JSON
NodeAnns == {NoMap, NoKey, Malformed} \cup NodeJsons
Caps == {[r \in {"gpu"} |-> 2]}

\* types.NewNodeInfo (all maps allocated empty)
NewNodeInfo == [Name |-> <<>>, Used |-> EmptyMap, KubeCap |-> EmptyMap, KubeAlloc |-> EmptyMap]

\* json.Unmarshal into a fresh NodeInfo: present fields overwrite, a JSON null
\* map sets the field to nil, a JSON object is decoded into the existing map
DecodeNodeInfo(j) ==
  [NewNodeInfo EXCEPT
     !.Name = IF j.name.present THEN j.name.val ELSE @,
     !.Used = IF j.used = Absent THEN @
              ELSE IF j.used = Null THEN Nil
              ELSE PutAll(@, j.used)]

\* variant: the decoded Used replaces the cached one instead of being merged
AnnotationToNodeInfo_NoMerge(ann, metaName, existing) ==
  IF ann = Malformed THEN [st |-> "err", info |-> Nil]
  ELSE
  LET dec == IF ann \in {NoMap, NoKey} THEN NewNodeInfo ELSE DecodeNodeInfo(ann)
      named == IF Len(TrimSpace(dec.Name)) = 0 THEN [dec EXCEPT !.Name = metaName] ELSE dec
  IN [st |-> "ok", info |-> named]

\* AnnotationToNodeInfo(meta, existingNodeInfo)
AnnotationToNodeInfo(ann, metaName, existing) ==
  IF ann = Malformed THEN [st |-> "err", info |-> Nil]
  ELSE
  LET dec == IF ann \in {NoMap, NoKey} THEN NewNodeInfo ELSE DecodeNodeInfo(ann)
      named == IF Len(TrimSpace(dec.Name)) = 0 THEN [dec EXCEPT !.Name = metaName] ELSE dec
  IN IF existing # Nil /\ existing.Used # Nil
     THEN IF named.Used = Nil /\ DOMAIN existing.Used # {}
          THEN [st |-> "panic", info |-> Nil]
          ELSE [st |-> "ok", info |-> [named EXCEPT !.Used = IF @ = Nil THEN Nil ELSE PutAll(@, existing.Used)]]
     ELSE [st |-> "ok", info |-> named]

\* KubeNodeToNodeInfo(knode, existingNodeInfo)
KubeNodeToNodeInfo(ann, metaName, cap, alloc, existing) ==
  LET r == AnnotationToNodeInfo(ann, metaName, existing)
  IN IF r.st # "ok" THEN r
     ELSE [st |-> "ok", info |-> [r.info EXCEPT !.KubeCap = PutAll(@, cap),
                                               !.KubeAlloc = PutAll(@, alloc)]]

\* caller-supplied initial existingNodeInfo values
ExistingNodeInfos == {Nil} \cup
  {[Name |-> NodeMetaName, Used |-> u, KubeCap |-> EmptyMap, KubeAlloc |-> EmptyMap] :
     u \in {Nil} \cup MapsOver({1})}

VARIABLES nAnn, nExisting, nCache, nResult, nOutcome, nSeen
nodeVars == <<nAnn, nExisting, nCache, nResult, nOutcome, nSeen>>

NodeInit ==
  /\ nAnn = NoMap
  /\ nExisting = Nil
  /\ nCache \in ExistingNodeInfos
  /\ nResult = Nil
  /\ nOutcome = "none"
  /\ nSeen = IF nCache = Nil THEN {} ELSE Keys(nCache.Used)

NodeApply(a, r) ==
  /\ nAnn' = a
  /\ nExisting' = nCache
  /\ nOutcome' = r.st
  /\ nResult' = r.info
  /\ nCache' = IF r.st = "ok" THEN r.info ELSE nCache
  /\ nSeen' = IF r.st = "ok" THEN nSeen \cup Keys(r.info.Used) ELSE nSeen

\* a scheduler read of the node's annotation, passing the previous result
SyncAnnotation ==
  \E a \in NodeAnns : NodeApply(a, AnnotationToNodeInfo(a, NodeMetaName, nCache))

\* a scheduler read of the whole node object, passing the previous result
SyncKubeNode ==
  \E a \in NodeAnns, cap \in Caps, alloc \in Caps :
    NodeApply(a, KubeNodeToNodeInfo(a, NodeMetaName, cap, alloc, nCache))

\* ---------------------------------------------------------------------
\* Pod side
\* ---------------------------------------------------------------------
PodMetaName == "p"
\* decoded JSON object of one ContainerInfo (fields absent or a JSON object)
ContJsons == [requests : {Absent, [r \in {"gpu"} |-> 1]},
              devrequests : {Absent, [r \in {"gpu"} |-> 2]},
              allocatefrom : {Absent, [r \in {"gpu"} |-> "d0"]},
              kuberequests : {Absent, [r \in {"cpu"} |-> 1]}]
FullContJson == [requests |-> [r \in {"gpu"} |-> 1], devrequests |-> [r \in {"gpu"} |-> 2],
                 allocatefrom |-> [r \in {"gpu"} |-> "d0"], kuberequests |-> [r \in {"cpu"} |-> 1]]
RunJsons == {Absent, Null, EmptyMap} \cup {[k \in {"c1"} |-> cj] : cj \in ContJsons}
InitJsons == {Absent, Null, EmptyMap, [k \in {"c1"} |-> FullContJson]}
PodJsons == [name : {AbsentStr, "x"}, nodename : {AbsentStr, "n1"},
             initcontainers : InitJsons, runningcontainers : RunJsons]
PodAnns == {NoMap, NoKey, Malformed} \cup PodJsons
\* live pod spec: init containers and containers, each a name and its requests
InitSpecs == {<<>>, <<[name |-> "c1", req |-> [r \in {"cpu"} |-> 2]]>>}
RunSpecs == {<<>>, <<[name |-> "c1", req |-> [r \in {"gpu"} |-> 2]]>>,
             <<[name |-> "c2", req |-> [r \in {"gpu"} |-> 1]]>>,
             <<[name |-> "c1", req |-> [r \in {"gpu"} |-> 2]],
               [name |-> "c2", req |-> EmptyMap]>>}
PodSpecs == [init : InitSpecs, run : RunSpecs]

\* types.NewContainerInfo
NewContainerInfo == [KubeRequests |-> EmptyMap, Requests |-> EmptyMap,
                     DevRequests |-> EmptyMap, AllocateFrom |-> EmptyMap]
\* types.FillContainerInfo: allocate the nil maps
FillContainerInfo(c) ==
  [KubeRequests |-> Norm(c.KubeRequests), Requests |-> Norm(c.Requests),
   DevRequests |-> Norm(c.DevRequests), AllocateFrom |-> Norm(c.AllocateFrom)]
\* types.NewPodInfo
NewPodInfo == [Name |-> "", NodeName |-> "", InitContainers |-> EmptyMap, RunningContainers |-> EmptyMap]

\* json.Unmarshal of one map element: decoded into a zero ContainerInfo.
\* krTag: whether ContainerInfo.KubeRequests takes part in JSON (its struct tag
\* lives in the external KubeDevice-API module)
JsonMap(f) == IF f = Absent THEN Nil ELSE f
DecodeContainerInfo(cj, krTag) ==
  [KubeRequests |-> IF krTag THEN JsonMap(cj.kuberequests) ELSE Nil,
   Requests |-> JsonMap(cj.requests),
   DevRequests |-> JsonMap(cj.devrequests),
   AllocateFrom |-> JsonMap(cj.allocatefrom)]
DecodeContainers(f, base, krTag) ==
  IF f = Absent THEN base
  ELSE IF f = Null THEN Nil
  ELSE [k \in DOMAIN base \cup DOMAIN f |->
          IF k \in DOMAIN f THEN DecodeContainerInfo(f[k], krTag) ELSE base[k]]
DecodePodInfo(j, krTag) ==
  [NewPodInfo EXCEPT
     !.Name = IF j.name = AbsentStr THEN @ ELSE j.name,
     !.NodeName = IF j.nodename = AbsentStr THEN @ ELSE j.nodename,
     !.InitContainers = DecodeContainers(j.initcontainers, @, krTag),
     !.RunningContainers = DecodeContainers(j.runningcontainers, @, krTag)]

MapPut(m, k, v) == [x \in DOMAIN m \cup {k} |-> IF x = k THEN v ELSE m[x]]

\* first loop of addContainersToPodInfo
RECURSIVE AddConts(_, _)
AddConts(m, conts) ==
  IF conts = <<>> THEN [st |-> "ok", m |-> m]
  ELSE IF m = Nil THEN [st |-> "panic", m |-> Nil]
  ELSE LET c == Head(conts)
           cont == IF c.name \in DOMAIN m THEN m[c.name] ELSE NewContainerInfo
           contF == FillContainerInfo(cont)
           contK == [contF EXCEPT !.KubeRequests = PutAll(@, c.req)]
       IN AddConts(MapPut(m, c.name, contK), Tail(conts))
\* second loop of addContainersToPodInfo
InvalidateConts(m) ==
  IF m = Nil THEN Nil
  ELSE [k \in DOMAIN m |-> [m[k] EXCEPT !.AllocateFrom = EmptyMap,
                                        !.DevRequests = PutAll(EmptyMap, m[k].Requests)]]
\* variant: the invalidation loop is skipped
addContainersToPodInfo_NoInvalidate(m, conts, inv) == AddConts(m, conts)

addContainersToPodInfo(m, conts, inv) ==
  LET r == AddConts(m, conts)
  IN IF r.st # "ok" THEN r
     ELSE [st |-> "ok", m |-> IF inv THEN InvalidateConts(r.m) ELSE r.m]

\* variant: a missing annotation key is reported as an error
KubePodInfoToPodInfo_MissingIsError(ann, podName, spec, inv, krTag) ==
  IF ann \in {Malformed, NoKey} THEN [st |-> "err", info |-> Nil]
  ELSE
  LET dec == IF ann = NoMap THEN NewPodInfo ELSE DecodePodInfo(ann, krTag)
      named == [dec EXCEPT !.Name = podName]
      ri == addContainersToPodInfo(named.InitContainers, spec.init, inv)
      rr == addContainersToPodInfo(named.RunningContainers, spec.run, inv)
  IN IF ri.st # "ok" THEN [st |-> ri.st, info |-> Nil]
     ELSE IF rr.st # "ok" THEN [st |-> rr.st, info |-> Nil]
     ELSE [st |-> "ok",
           info |-> [named EXCEPT !.InitContainers = ri.m, !.RunningContainers = rr.m,
                                  !.NodeName = IF inv THEN "" ELSE @]]

\* KubePodInfoToPodInfo(kubePodInfo, invalidateExistingAnnotations)
KubePodInfoToPodInfo(ann, podName, spec, inv, krTag) ==
  IF ann = Malformed THEN [st |-> "err", info |-> Nil]
  ELSE
  LET dec == IF ann \in {NoMap, NoKey} THEN NewPodInfo ELSE DecodePodInfo(ann, krTag)
      named == [dec EXCEPT !.Name = podName]
      ri == addContainersToPodInfo(named.InitContainers, spec.init, inv)
      rr == addContainersToPodInfo(named.RunningContainers, spec.run, inv)
  IN IF ri.st # "ok" THEN [st |-> ri.st, info |-> Nil]
     ELSE IF rr.st # "ok" THEN [st |-> rr.st, info |-> Nil]
     ELSE [st |-> "ok",
           info |-> [named EXCEPT !.InitContainers = ri.m, !.RunningContainers = rr.m,
                                  !.NodeName = IF inv THEN "" ELSE @]]

\* json.Marshal of a PodInfo (empty strings and empty or nil maps omitted)
EncMap(m) == IF Norm(m) = EmptyMap THEN Absent ELSE m
\* variant: Requests left out of the encoding
EncodeContainerInfo_NoRequests(c, krTag) ==
  [requests |-> Absent, devrequests |-> EncMap(c.DevRequests),
   allocatefrom |-> EncMap(c.AllocateFrom),
   kuberequests |-> IF krTag THEN EncMap(c.KubeRequests) ELSE Absent]
EncodeContainerInfo(c, krTag) ==
  [requests |-> EncMap(c.Requests), devrequests |-> EncMap(c.DevRequests),
   allocatefrom |-> EncMap(c.AllocateFrom),
   kuberequests |-> IF krTag THEN EncMap(c.KubeRequests) ELSE Absent]
EncodeContainers(m, krTag) ==
  IF Norm(m) = EmptyMap THEN Absent ELSE [k \in DOMAIN m |-> EncodeContainerInfo(m[k], krTag)]
\* PodInfoToAnnotation(meta, podInfo)
PodInfoToAnnotation(p, krTag) ==
  [name |-> IF p.Name = "" THEN AbsentStr ELSE p.Name,
   nodename |-> IF p.NodeName = "" THEN AbsentStr ELSE p.NodeName,
   initcontainers |-> EncodeContainers(p.InitContainers, krTag),
   runningcontainers |-> EncodeContainers(p.RunningContainers, krTag)]

\* content of a PodInfo, nil and empty maps identified
NormCont(c) == [KubeRequests |-> Norm(c.KubeRequests), Requests |-> Norm(c.Requests),
                DevRequests |-> Norm(c.DevRequests), AllocateFrom |-> Norm(c.AllocateFrom)]
NormConts(m) == [k \in Keys(m) |-> NormCont(m[k])]
NormPod(p) == [Name |-> p.Name, NodeName |-> p.NodeName,
               InitContainers |-> NormConts(p.InitContainers),
               RunningContainers |-> NormConts(p.RunningContainers)]

VARIABLES pAnn, pSpec, pTag, pInv, pPc, pOut1, pP1, pOut2, pP2
podVars == <<pAnn, pSpec, pTag, pInv, pPc, pOut1, pP1, pOut2, pP2>>

PodInit ==
  /\ pAnn \in PodAnns
  /\ pSpec \in PodSpecs
  /\ pTag \in BOOLEAN
  /\ pInv = FALSE
  /\ pPc = "start"
  /\ pOut1 = "none" /\ pP1 = Nil /\ pOut2 = "none" /\ pP2 = Nil

\* scheduler reads the pod, with or without invalidation
ReconcilePod ==
  /\ pPc = "start"
  /\ \E inv \in BOOLEAN :
       LET r == KubePodInfoToPodInfo(pAnn, PodMetaName, pSpec, inv, pTag)
       IN /\ pInv' = inv /\ pOut1' = r.st /\ pP1' = r.info
  /\ pPc' = "first"
  /\ UNCHANGED <<pAnn, pSpec, pTag, pOut2, pP2>>

\* scheduler writes the result back into the pod's annotation
WritePodAnnotation ==
  /\ pPc = "first" /\ pOut1 = "ok"
  /\ pAnn' = PodInfoToAnnotation(pP1, pTag)
  /\ pPc' = "written"
  /\ UNCHANGED <<pSpec, pTag, pInv, pOut1, pP1, pOut2, pP2>>

\* scheduler reads the pod again with the same invalidation flag
ReconcilePodAgain ==
  /\ pPc = "written"
  /\ LET r == KubePodInfoToPodInfo(pAnn, PodMetaName, pSpec, pInv, pTag)
     IN pOut2' = r.st /\ pP2' = r.info
  /\ pPc' = "second"
  /\ UNCHANGED <<pAnn, pSpec, pTag, pInv, pOut1, pP1>>

\* ---------------------------------------------------------------------
\* Remote calls: PatchNodeMetadata, PatchPodMetadata, UpdatePodMetadata
\* ---------------------------------------------------------------------
\* outcomes of one remote call of the object store
RemoteResults == {"ok", "NotFound", "Conflict"}
ObjNames == {"p", "q"}
Namespaces == {"default", "kube"}
Annots == {"a0", "a1"}
NodeFields == {"n0", "n1"}
\* a Kubernetes object: name, namespace, annotations and a non-metadata field
Objs == [name : ObjNames, ns : Namespaces, ann : Annots, node : NodeFields]
Ops == {"PatchNode", "PatchPod", "UpdatePod"}

\* GetPatchBytes: the two-way merge patch old -> new, i.e. the changed fields
\* with their new values (diffOk: whether marshalling and diffing succeed)
GetPatchBytes(old, new) ==
  [f \in {g \in DOMAIN old : old[g] # new[g]} |-> new[f]]
\* applying a merge patch to an object
ApplyPatch(o, patch) == [f \in DOMAIN o |-> IF f \in DOMAIN patch THEN patch[f] ELSE o[f]]

\* an error returned by fmt.Errorf(errStr): only its text survives
WrappedError(sub) == [kind |-> "opaque", sub |-> sub]
\* an error returned unchanged
CauseError(k) == [kind |-> k, sub |-> "none"]
NoError == [kind |-> "none", sub |-> "none"]

VARIABLES rOp, rPc, rOld, rNew, rLive, rPatch, rCalls, rErr, rRet
remoteVars == <<rOp, rPc, rOld, rNew, rLive, rPatch, rCalls, rErr, rRet>>

RemoteInit ==
  /\ rOp \in Ops
  /\ rPc = "start"
  /\ rOld \in Objs
  /\ rNew \in Objs
  /\ rLive \in Objs
  /\ rPatch = Nil
  /\ rCalls = <<>>
  /\ rErr = NoError
  /\ rRet = Nil

Call(verb, sub, arg, res) == [verb |-> verb, sub |-> sub, arg |-> arg, res |-> res]

\* GetPatchBytes step of PatchNodeMetadata / PatchPodMetadata
PatchDiff ==
  /\ rPc = "start" /\ rOp \in {"PatchNode", "PatchPod"}
  /\ \E diffOk \in BOOLEAN :
       IF diffOk
       THEN rPatch' = GetPatchBytes(rOld, rNew) /\ rPc' = "patch1" /\ rErr' = rErr
       ELSE rPatch' = Nil /\ rPc' = "done" /\ rErr' = [kind |-> "diff", sub |-> "none"]
  /\ UNCHANGED <<rOp, rOld, rNew, rLive, rCalls, rRet>>

\* the store holds the object Patch names: nodeName (= oldNode's name), or
\* oldPod's namespace and podName (= oldPod's name)
PatchTargetFound ==
  rLive.name = rOld.name /\ (rOp = "PatchNode" \/ rLive.ns = rOld.ns)
\* outcome of a Patch call: a missing target is reported as NotFound
PatchResult(res) == IF res = "ok" /\ ~PatchTargetFound THEN "NotFound" ELSE res

\* variant: the node's status sub-resource is never patched
PatchMain_NoStatus ==
  /\ rPc = "patch1"
  /\ \E res0 \in RemoteResults :
       LET res == PatchResult(res0) IN
       /\ rCalls' = Append(rCalls, Call("patch", "", rPatch, res))
       /\ IF res # "ok"
          THEN rPc' = "done" /\ rErr' = WrappedError("metadata") /\ rRet' = Nil /\ rLive' = rLive
          ELSE rPc' = "done" /\ rErr' = rErr /\ rLive' = ApplyPatch(rLive, rPatch)
               /\ rRet' = ApplyPatch(rLive, rPatch)
  /\ UNCHANGED <<rOp, rOld, rNew, rPatch>>

\* c.Nodes().Patch / c.Pods(ns).Patch on the default sub-resource; the store
\* applies the patch to its object and returns the result
PatchMain ==
  /\ rPc = "patch1"
  /\ \E res0 \in RemoteResults :
       LET res == PatchResult(res0) IN
       /\ rCalls' = Append(rCalls, Call("patch", "", rPatch, res))
       /\ IF res # "ok"
          THEN rPc' = "done" /\ rErr' = WrappedError("metadata") /\ rRet' = Nil /\ rLive' = rLive
          ELSE /\ rPc' = IF rOp = "PatchNode" THEN "patch2" ELSE "done"
               /\ rErr' = rErr
               /\ rLive' = ApplyPatch(rLive, rPatch)
               /\ rRet' = ApplyPatch(rLive, rPatch)
  /\ UNCHANGED <<rOp, rOld, rNew, rPatch>>

\* c.Nodes().Patch(..., "status")
PatchStatus ==
  /\ rPc = "patch2"
  /\ \E res0 \in RemoteResults :
       LET res == PatchResult(res0) IN
       /\ rCalls' = Append(rCalls, Call("patch", "status", rPatch, res))
       /\ IF res # "ok"
          THEN rPc' = "done" /\ rErr' = WrappedError("status") /\ rRet' = Nil /\ rLive' = rLive
          ELSE rPc' = "done" /\ rErr' = rErr /\ rLive' = ApplyPatch(rLive, rPatch)
               /\ rRet' = ApplyPatch(rLive, rPatch)
  /\ UNCHANGED <<rOp, rOld, rNew, rPatch>>

\* UpdatePodMetadata: fetch the live pod by newPod's namespace and name; the
\* store's get returns its object or an error, with no promise that the
\* returned object carries the requested identity
UpdateGet ==
  /\ rPc = "start" /\ rOp = "UpdatePod"
  /\ \E r \in RemoteResults :
       /\ rCalls' = Append(rCalls, Call("get", "", [name |-> rNew.name, ns |-> rNew.ns], r))
       /\ IF r # "ok"
          THEN rPc' = "done" /\ rErr' = CauseError(r) /\ rOld' = rOld
          ELSE rPc' = "fetched" /\ rErr' = rErr /\ rOld' = rLive
  /\ UNCHANGED <<rOp, rNew, rLive, rPatch, rRet>>

\* an empty v1.Pod{}: what the typed client returns with an Update error
EmptyPod == [name |-> "", ns |-> "", ann |-> "", node |-> ""]
\* result returned with a failed Update: the typed client's empty pod, or
\* nil from other clientset implementations
UpdateErrorResults == {Nil, EmptyPod}

\* variant: the identity check is left out
UpdateSubmit_NoCheck ==
  /\ rPc = "fetched"
  /\ LET modified == [rOld EXCEPT !.ann = rNew.ann]
     IN \E res \in RemoteResults :
          /\ rCalls' = Append(rCalls, Call("update", "", modified, res))
          /\ rPc' = "done"
          /\ IF res # "ok" THEN rErr' = CauseError(res) /\ rRet' \in UpdateErrorResults /\ rLive' = rLive
             ELSE rErr' = rErr /\ rRet' = modified /\ rLive' = modified
  /\ UNCHANGED <<rOp, rOld, rNew, rPatch>>

\* variant: the desired pod is submitted as a whole
UpdateSubmit_Full ==
  /\ rPc = "fetched"
  /\ IF rNew.name # rOld.name \/ rNew.ns # rOld.ns
     THEN rPc' = "done" /\ rErr' = [kind |-> "mismatch", sub |-> "none"]
          /\ UNCHANGED <<rCalls, rRet, rLive>>
     ELSE \E res \in RemoteResults :
               /\ rCalls' = Append(rCalls, Call("update", "", rNew, res))
               /\ rPc' = "done"
               /\ IF res # "ok" THEN rErr' = CauseError(res) /\ rRet' \in UpdateErrorResults /\ rLive' = rLive
                  ELSE rErr' = rErr /\ rRet' = rNew /\ rLive' = rNew
  /\ UNCHANGED <<rOp, rOld, rNew, rPatch>>

\* UpdatePodMetadata: identity check, clone, take new annotations, Update
UpdateSubmit ==
  /\ rPc = "fetched"
  /\ IF rNew.name # rOld.name \/ rNew.ns # rOld.ns
     THEN rPc' = "done" /\ rErr' = [kind |-> "mismatch", sub |-> "none"]
          /\ UNCHANGED <<rCalls, rRet, rLive>>
     ELSE LET modified == [rOld EXCEPT !.ann = rNew.ann]
          IN \E res \in RemoteResults :
               /\ rCalls' = Append(rCalls, Call("update", "", modified, res))
               /\ rPc' = "done"
               /\ IF res # "ok" THEN rErr' = CauseError(res) /\ rRet' \in UpdateErrorResults /\ rLive' = rLive
                  ELSE rErr' = rErr /\ rRet' = modified /\ rLive' = modified
  /\ UNCHANGED <<rOp, rOld, rNew, rPatch>>

\* ---------------------------------------------------------------------
\* Specifications
\* ---------------------------------------------------------------------
vars == <<nodeVars, podVars, remoteVars>>

NodeIdle ==
  /\ nAnn = NoMap /\ nExisting = Nil /\ nCache = Nil /\ nResult = Nil
  /\ nOutcome = "none" /\ nSeen = {}
PodIdle ==
  /\ pAnn = NoMap /\ pSpec = [init |-> <<>>, run |-> <<>>] /\ pTag = FALSE
  /\ pInv = FALSE /\ pPc = "start"
  /\ pOut1 = "none" /\ pP1 = Nil /\ pOut2 = "none" /\ pP2 = Nil
RemoteIdle ==
  /\ rOp = "none" /\ rPc = "start" /\ rOld = Nil /\ rNew = Nil /\ rLive = Nil
  /\ rPatch = Nil /\ rCalls = <<>> /\ rErr = NoError /\ rRet = Nil

\* repeated reads of one node by the scheduler
NodeNext ==
  /\ (SyncAnnotation \/ SyncKubeNode)
  /\ UNCHANGED <<podVars, remoteVars>>
NodeStart == NodeInit /\ PodIdle /\ RemoteIdle
NodeSpec == NodeStart /\ [][NodeNext]_vars

\* read, write back, read again of one pod
PodNext ==
  /\ (ReconcilePod \/ WritePodAnnotation \/ ReconcilePodAgain)
  /\ UNCHANGED <<nodeVars, remoteVars>>
PodStart == NodeIdle /\ PodInit /\ RemoteIdle
PodSpec == PodStart /\ [][PodNext]_vars

\* one call of PatchNodeMetadata, PatchPodMetadata or UpdatePodMetadata
RemoteNext ==
  /\ (PatchDiff \/ PatchMain \/ PatchStatus \/ UpdateGet \/ UpdateSubmit)
  /\ UNCHANGED <<nodeVars, podVars>>
RemoteStart == NodeIdle /\ PodIdle /\ RemoteInit
RemoteSpec == RemoteStart /\ [][RemoteNext]_vars

Init == NodeStart
Next == NodeNext
Spec == Init /\ [][Next]_vars


\* ---------------------------------------------------------------------
\* Properties
\* ---------------------------------------------------------------------
\* Used map decoded from the node annotation of the last read
DecodedUsed == IF nAnn \in {NoMap, NoKey} THEN EmptyMap ELSE DecodeNodeInfo(nAnn).Used

\* C1: for any decoded Used D and existing Used E (non-nil), the result of
\* AnnotationToNodeInfo has exactly the keys of E and D, E's value winning.
C1_MergeMonotonicity ==
  (nOutcome \in {"ok", "panic"} /\ nExisting # Nil /\ nExisting.Used # Nil)
    => /\ nOutcome = "ok"
       /\ Keys(nResult.Used) = Keys(nExisting.Used) \cup Keys(DecodedUsed)
       /\ \A k \in Keys(nExisting.Used) : nResult.Used[k] = nExisting.Used[k]
       /\ \A k \in Keys(DecodedUsed) \ Keys(nExisting.Used) : nResult.Used[k] = DecodedUsed[k]

\* C2: across successive reads of a node, each passed the previous result,
\* no key ever present in Used disappears from it.
C2_UsedOnlyGrows == nCache # Nil => nSeen \subseteq Keys(nCache.Used)
C2_Witness ==
  /\ nOutcome = "ok" /\ nExisting # Nil /\ nExisting.Used # Nil
  /\ DOMAIN nExisting.Used # {}
  /\ nAnn \in NodeJsons /\ nAnn.used \in {Absent, EmptyMap}

\* C3: invalidating, writing the result back and invalidating again yields
\* the same PodInfo.
C3_InvalidationIdempotent ==
  (pPc = "second" /\ pInv)
    => pOut2 = "ok" /\ NormPod(pP2) = NormPod(pP1)
C3_Witness ==
  /\ pPc = "second" /\ pInv /\ pOut2 = "ok"
  /\ \E k \in Keys(pP1.RunningContainers) : Norm(pP1.RunningContainers[k].Requests) # EmptyMap

\* C4: after a successful invalidating read, NodeName is empty and every
\* container has an empty AllocateFrom and DevRequests equal to Requests.
C4_InvalidationEffect ==
  (pPc = "first" /\ pInv /\ pOut1 = "ok")
    => /\ pP1.NodeName = ""
       /\ \A m \in {pP1.InitContainers, pP1.RunningContainers} :
            \A k \in Keys(m) : /\ Norm(m[k].AllocateFrom) = EmptyMap
                               /\ Norm(m[k].DevRequests) = Norm(m[k].Requests)
C4_Witness ==
  /\ pPc = "first" /\ pInv /\ pOut1 = "ok"
  /\ pAnn \in PodJsons /\ pAnn.nodename = "n1"
  /\ pAnn.runningcontainers \notin {Absent, Null, EmptyMap}
  /\ pAnn.runningcontainers["c1"].allocatefrom # Absent
  /\ pAnn.runningcontainers["c1"].devrequests # Absent

\* C6: without the annotation, both readers succeed with a fresh model named
\* after the object; a pod whose one container requests {gpu: 2} read
\* without invalidation has one ContainerInfo with KubeRequests {gpu: 2} and
\* empty Requests and AllocateFrom.
OneGpuPod == [init |-> <<>>, run |-> <<[name |-> "c1", req |-> [r \in {"gpu"} |-> 2]]>>]
C6_MissingAnnotation ==
  /\ \A a \in {NoMap, NoKey}, e \in ExistingNodeInfos :
       /\ AnnotationToNodeInfo(a, NodeMetaName, e).st = "ok"
       /\ AnnotationToNodeInfo(a, NodeMetaName, e).info.Name = NodeMetaName
  /\ (pPc = "first" /\ pAnn \in {NoMap, NoKey})
       => /\ pOut1 = "ok" /\ pP1 # Nil /\ pP1.Name = PodMetaName
          /\ (pSpec = OneGpuPod /\ ~pInv)
               => /\ Keys(pP1.InitContainers) = {}
                  /\ Keys(pP1.RunningContainers) = {"c1"}
                  /\ pP1.RunningContainers["c1"].KubeRequests = [r \in {"gpu"} |-> 2]
                  /\ Norm(pP1.RunningContainers["c1"].Requests) = EmptyMap
                  /\ Norm(pP1.RunningContainers["c1"].AllocateFrom) = EmptyMap
C6_Witness == pPc = "first" /\ pAnn = NoKey /\ pSpec = OneGpuPod /\ ~pInv

\* C8 (as stated): both PatchNodeMetadata and PatchPodMetadata apply the
\* same patch to the default and then to the status sub-resource.
C8_TwoSubresourcePatch ==
  (rPc = "done" /\ rOp \in {"PatchNode", "PatchPod"} /\ rErr = NoError)
    => /\ Len(rCalls) = 2
       /\ rCalls[1].sub = "" /\ rCalls[2].sub = "status"
       /\ rCalls[1].arg = rCalls[2].arg

\* C8 (amended): PatchNodeMetadata applies the one patch old -> new to the
\* default sub-resource and, only if that succeeded, the identical patch to
\* status; a failure ends it with an error naming the failing sub-resource,
\* without rollback.  PatchPodMetadata applies the patch once, to the
\* default sub-resource only.
C8_NodePatchSequence ==
  rPc = "done" /\ rOp \in {"PatchNode", "PatchPod"} /\ rErr.kind # "diff" =>
    /\ Len(rCalls) >= 1
    /\ \A i \in 1..Len(rCalls) : rCalls[i].verb = "patch" /\ rCalls[i].arg = GetPatchBytes(rOld, rNew)
    /\ rCalls[1].sub = ""
    /\ rOp = "PatchNode" =>
         /\ Len(rCalls) <= 2
         /\ rCalls[1].res # "ok" => Len(rCalls) = 1 /\ rErr.sub = "metadata"
         /\ rCalls[1].res = "ok" => Len(rCalls) = 2 /\ rCalls[2].sub = "status"
         /\ (Len(rCalls) = 2 /\ rCalls[2].res # "ok") => rErr.sub = "status"
         /\ (Len(rCalls) = 2 /\ rCalls[2].res = "ok") => rErr = NoError
    /\ rOp = "PatchPod" =>
         /\ Len(rCalls) = 1
         /\ (rCalls[1].res # "ok") = (rErr # NoError)
C8_Witness ==
  rPc = "done" /\ rOp = "PatchNode" /\ Len(rCalls) = 2 /\ rCalls[2].res # "ok"

\* C9: UpdatePodMetadata fetches once; on an identity mismatch it makes no
\* Update; otherwise it submits the fetched pod with only its annotations
\* replaced by the desired ones.
C9_MetadataOnlyUpdate ==
  (rPc = "done" /\ rOp = "UpdatePod")
    => /\ rCalls[1].verb = "get"
       /\ \A i \in 2..Len(rCalls) : rCalls[i].verb = "update"
       /\ Len(rCalls) <= 2
       /\ (rCalls[1].res = "ok" /\ (rOld.name # rNew.name \/ rOld.ns # rNew.ns))
            => Len(rCalls) = 1 /\ rErr.kind = "mismatch"
       /\ Len(rCalls) = 2 => rCalls[2].arg = [rOld EXCEPT !.ann = rNew.ann]
C9_Witness ==
  /\ rPc = "done" /\ rOp = "UpdatePod" /\ Len(rCalls) = 2 /\ rCalls[2].res = "ok"
  /\ rNew.node # rOld.node /\ rNew.ann # rOld.ann

\* C10: each remote call is made at most once, no call follows a failed one,
\* and the returned error keeps the failed call's cause.
C10_ErrorsSurfaced ==
  rPc = "done" =>
    /\ \A i, j \in 1..Len(rCalls) :
         i # j => <<rCalls[i].verb, rCalls[i].sub>> # <<rCalls[j].verb, rCalls[j].sub>>
    /\ \A i \in 1..Len(rCalls) :
         rCalls[i].res # "ok" => i = Len(rCalls) /\ rErr.kind = rCalls[i].res

====
